---- MODULE Spec2Model ----
(***************************************************************************)
(* The VOR simulator of VOR_FINAL_UPDATED.py: the navigation calculators   *)
(* (calculate_bearing, calculate_vor_to_from, calculate_distance,          *)
(* calculate_cdi_deflection) and the simulator state they are applied to   *)
(* (aircraft position and heading, OBS, speed, active station).            *)
(*                                                                         *)
(* Python floats are modelled in fixed point:                              *)
(*   angles        DegUnits   units per degree                             *)
(*   CDI dots      DotUnits   units per dot                                *)
(*   grid coords   PosUnits   units per grid unit                          *)
(*   displacement  DispUnits  units per 1.0 of dx, dy                      *)
(*   speed         SpeedUnits units per 1.0 of speed                       *)
(***************************************************************************)
EXTENDS Integers, Sequences, FiniteSets, TLC

VARIABLES
    air_x_val,       \* aircraft x, grid units (PosUnits)
    air_y_val,       \* aircraft y, grid units (PosUnits)
    airplane_angle,  \* heading (DegUnits)
    obs_angle,       \* OBS setting (DegUnits)
    speed,           \* aircraft speed (SpeedUnits)
    active_vor,      \* 1 or 2
    vor,             \* station positions vor1_x, vor1_y, vor2_x, vor2_y
    display,         \* what update_vor_output last put on the instruments
    step,            \* number of operations performed so far
    last_op,         \* the operation performed last, with its arguments
    pre,             \* the simulator state that operation started from
    call,            \* a calculator call: function, arguments, result
    pressed_keys,        \* keysyms currently held down
    joystick_enabled,    \* a joystick was found at construction
    last_button_states,  \* mapped buttons sampled pressed at the last poll
    last_hat_state,      \* hat (x, y) as of the last poll
    tick_log,            \* the calls the last movement_loop tick made, in order
    form,                \* the landing form: LandingForm's fields and timers
    map                  \* the embedded-map loader: its closure and timers

inputVars == <<pressed_keys, joystick_enabled, last_button_states,
               last_hat_state, tick_log>>

vars == <<air_x_val, air_y_val, airplane_angle, obs_angle, speed, active_vor,
          vor, display, step, last_op, pre, call, inputVars, form, map>>

simVars == <<air_x_val, air_y_val, airplane_angle, obs_angle, speed,
             active_vor, vor, display, step, last_op, pre, inputVars>>

----------------------------------------------------------------------------
(* Resolutions and bounds *)

DegUnits == 2

DotUnits == 2 * DegUnits

PosUnits == 500

DispUnits == 10

SpeedUnits == 10

TanScale == 10000

MaxSteps == 3

GeoSpan == 3

MaxTurns == 2

FullCircle == 360 * DegUnits

Abs(x) == IF x < 0 THEN -x ELSE x

Min(a, b) == IF a <= b THEN a ELSE b

Max(a, b) == IF a >= b THEN a ELSE b

----------------------------------------------------------------------------
(* math.atan2 and math.degrees, to the nearest whole degree *)

\* TanTable[j] = tan((j - 1/2) degrees) * TanScale, j = 1..45
TanTable ==
    << 87, 262, 437, 612, 787, 963, 1139, 1317, 1495, 1673, 1853, 2035, 2217,
       2401, 2586, 2773, 2962, 3153, 3346, 3541, 3739, 3939, 4142, 4348, 4557,
       4770, 4986, 5206, 5430, 5658, 5890, 6128, 6371, 6619, 6873, 7133, 7400,
       7673, 7954, 8243, 8541, 8847, 9163, 9490, 9827 >>

\* atan(a / b) in whole degrees for 0 <= a <= b, b > 0: a value in 0..45
AtanOctant(a, b) ==
    Cardinality({j \in 1..45 : a * TanScale >= TanTable[j] * b})

\* degrees(atan2(y, x)): a value in (-180, 180] degrees, in DegUnits;
\* atan2(0, 0) = 0
atan2_degrees(y, x) ==
    LET ay == Abs(y)
        ax == Abs(x)
        q  == IF ax = 0 /\ ay = 0 THEN 0
              ELSE IF ay <= ax THEN AtanOctant(ay, ax)
              ELSE 90 - AtanOctant(ax, ay)
        h  == IF x >= 0 THEN q ELSE 180 - q
    IN  DegUnits * (IF y >= 0 THEN h ELSE -h)

----------------------------------------------------------------------------
(* VOR logic: the four calculators *)

calculate_bearing_swapped(x_aircraft, y_aircraft, x_vor, y_vor) ==
    LET dx == x_vor - x_aircraft
        dy == y_vor - y_aircraft
        angle == atan2_degrees(dy, dx)
    IN  (angle + FullCircle) % FullCircle

calculate_bearing(x_aircraft, y_aircraft, x_vor, y_vor) ==
    LET dx == x_vor - x_aircraft
        dy == y_vor - y_aircraft
        angle == atan2_degrees(dx, dy)
    IN  (angle + FullCircle) % FullCircle

calculate_vor_to_from_inclusive(obs, bearing) ==
    LET diff == (bearing - obs + FullCircle) % FullCircle
        reciprocal_diff == (diff + 180 * DegUnits) % FullCircle
    IN  IF Min(diff, FullCircle - diff)
              <= Min(reciprocal_diff, FullCircle - reciprocal_diff)
        THEN IF diff <= 90 * DegUnits \/ diff >= 270 * DegUnits
             THEN "TO" ELSE "FROM"
        ELSE IF reciprocal_diff < 90 * DegUnits
                   \/ reciprocal_diff > 270 * DegUnits
             THEN "FROM" ELSE "TO"

calculate_vor_to_from_uninverted(obs, bearing) ==
    LET diff == (bearing - obs + FullCircle) % FullCircle
        reciprocal_diff == (diff + 180 * DegUnits) % FullCircle
    IN  IF Min(diff, FullCircle - diff)
              <= Min(reciprocal_diff, FullCircle - reciprocal_diff)
        THEN IF diff < 90 * DegUnits \/ diff > 270 * DegUnits
             THEN "TO" ELSE "FROM"
        ELSE IF reciprocal_diff < 90 * DegUnits
                   \/ reciprocal_diff > 270 * DegUnits
             THEN "TO" ELSE "FROM"

calculate_vor_to_from_narrow(obs, bearing) ==
    LET diff == (bearing - obs + FullCircle) % FullCircle
        reciprocal_diff == (diff + 180 * DegUnits) % FullCircle
    IN  IF Min(diff, FullCircle - diff)
              <= Min(reciprocal_diff, FullCircle - reciprocal_diff)
        THEN IF diff < 90 * DegUnits THEN "TO" ELSE "FROM"
        ELSE IF reciprocal_diff < 90 * DegUnits
                   \/ reciprocal_diff > 270 * DegUnits
             THEN "FROM" ELSE "TO"

calculate_vor_to_from(obs, bearing) ==
    LET diff == (bearing - obs + FullCircle) % FullCircle
        reciprocal_diff == (diff + 180 * DegUnits) % FullCircle
    IN  IF Min(diff, FullCircle - diff)
              <= Min(reciprocal_diff, FullCircle - reciprocal_diff)
        THEN IF diff < 90 * DegUnits \/ diff > 270 * DegUnits
             THEN "TO" ELSE "FROM"
        ELSE IF reciprocal_diff < 90 * DegUnits
                   \/ reciprocal_diff > 270 * DegUnits
             THEN "FROM" ELSE "TO"

\* round(v, 2) of v = sqrt(d2) / PosUnits, in hundredths of a grid unit: the n
\* with n - 1/2 < 100 * v < n + 1/2, searched in 0..bound.  PosUnits / 100 is
\* odd, so ((2n + 1) * PosUnits / 100)^2 is odd and never equals 4 * d2: no
\* input of this resolution lies on a rounding tie.
round2_sqrt(d2, bound) ==
    LET c == PosUnits \div 100
    IN  Cardinality({n \in 0..bound :
            ((2 * n + 1) * c) * ((2 * n + 1) * c) < 4 * d2})

calculate_distance_truncated(x1, y1, x2, y2) ==
    LET d2 == (x2 - x1) * (x2 - x1) + (y2 - y1) * (y2 - y1)
        c == PosUnits \div 100
    IN  Cardinality({n \in 1..(Abs(x2 - x1) + Abs(y2 - y1)) :
            (n * c) * (n * c) <= d2})

calculate_distance(x1, y1, x2, y2) ==
    round2_sqrt((x2 - x1) * (x2 - x1) + (y2 - y1) * (y2 - y1),
                Abs(x2 - x1) + Abs(y2 - y1))

\* diff of calculate_cdi_deflection after the reciprocal fold, before the
\* division by 2
cdi_folded_diff(obs, bearing_to_vor) ==
    LET d0 == (bearing_to_vor - obs + FullCircle) % FullCircle
        diff == IF d0 > 180 * DegUnits THEN d0 - FullCircle ELSE d0
        reciprocal_diff == IF diff < 0 THEN diff + 180 * DegUnits
                           ELSE diff - 180 * DegUnits
    IN  IF Abs(reciprocal_diff) < Abs(diff) THEN reciprocal_diff ELSE diff

calculate_cdi_deflection_unclamped(obs, bearing_to_vor) ==
    (cdi_folded_diff(obs, bearing_to_vor) * DotUnits) \div (2 * DegUnits)

calculate_cdi_deflection_unfolded(obs, bearing_to_vor) ==
    LET d0 == (bearing_to_vor - obs + FullCircle) % FullCircle
        diff == IF d0 > 180 * DegUnits THEN d0 - FullCircle ELSE d0
        dots == (diff * DotUnits) \div (2 * DegUnits)
    IN  Max(-10 * DotUnits, Min(10 * DotUnits, dots))

calculate_cdi_deflection_per_degree(obs, bearing_to_vor) ==
    LET dots == (cdi_folded_diff(obs, bearing_to_vor) * DotUnits) \div DegUnits
    IN  Max(-10 * DotUnits, Min(10 * DotUnits, dots))

calculate_cdi_deflection(obs, bearing_to_vor) ==
    LET dots == (cdi_folded_diff(obs, bearing_to_vor) * DotUnits)
                    \div (2 * DegUnits)
    IN  Max(-10 * DotUnits, Min(10 * DotUnits, dots))

----------------------------------------------------------------------------
(* The simulator: VORSimulatorGUI *)

InitAir == 10

InitSpeed == 7

ResetSpeed == 5

\* Station positions, canvas coordinates (5 canvas units per grid unit)
vor1_x == 50 * 5 * PosUnits

vor1_y == 50 * 5 * PosUnits

vor2_x == 241 * 5 * PosUnits

vor2_y == (884 * 5 * PosUnits) \div 10

\* The simulator's fields as one record
SimState ==
    [air_x_val |-> air_x_val, air_y_val |-> air_y_val,
     airplane_angle |-> airplane_angle, obs_angle |-> obs_angle,
     speed |-> speed, active_vor |-> active_vor, vor |-> vor,
     display |-> display]

SetSim(s) ==
    /\ air_x_val' = s.air_x_val
    /\ air_y_val' = s.air_y_val
    /\ airplane_angle' = s.airplane_angle
    /\ obs_angle' = s.obs_angle
    /\ speed' = s.speed
    /\ active_vor' = s.active_vor
    /\ vor' = s.vor
    /\ display' = s.display

\* update_vor_output: bearing, TO/FROM and CDI of the active station
update_vor_output(s) ==
    LET vx_grid == IF s.active_vor = 1 THEN s.vor.vor1_x \div 5
                   ELSE s.vor.vor2_x \div 5
        vy_grid == IF s.active_vor = 1 THEN s.vor.vor1_y \div 5
                   ELSE s.vor.vor2_y \div 5
        bearing_to_vor ==
            calculate_bearing(s.air_x_val, s.air_y_val, vx_grid, vy_grid)
    IN  [s EXCEPT !.display =
            [bearing |-> bearing_to_vor,
             direction |-> calculate_vor_to_from(s.obs_angle, bearing_to_vor),
             deflection |->
                 calculate_cdi_deflection(s.obs_angle, bearing_to_vor)]]

move_airplane_unnormalized(s, dx, dy) ==
    IF dx = 0 /\ dy = 0 THEN s
    ELSE update_vor_output(
           [s EXCEPT !.airplane_angle = atan2_degrees(dx, -dy),
                     !.air_x_val = @ + (dx * s.speed * PosUnits)
                                         \div (DispUnits * SpeedUnits),
                     !.air_y_val = @ + (dy * s.speed * PosUnits)
                                         \div (DispUnits * SpeedUnits)])

move_airplane_unguarded(s, dx, dy) ==
    update_vor_output(
        [s EXCEPT !.airplane_angle = atan2_degrees(dx, -dy) % FullCircle,
                  !.air_x_val = @ + (dx * s.speed * PosUnits)
                                      \div (DispUnits * SpeedUnits),
                  !.air_y_val = @ + (dy * s.speed * PosUnits)
                                      \div (DispUnits * SpeedUnits)])

move_airplane_y_up(s, dx, dy) ==
    IF dx = 0 /\ dy = 0 THEN s
    ELSE update_vor_output(
           [s EXCEPT !.airplane_angle = atan2_degrees(dx, dy) % FullCircle,
                     !.air_x_val = @ + (dx * s.speed * PosUnits)
                                         \div (DispUnits * SpeedUnits),
                     !.air_y_val = @ + (dy * s.speed * PosUnits)
                                         \div (DispUnits * SpeedUnits)])

move_airplane(s, dx, dy) ==
    IF dx = 0 /\ dy = 0 THEN s
    ELSE update_vor_output(
           [s EXCEPT !.airplane_angle = atan2_degrees(dx, -dy) % FullCircle,
                     !.air_x_val = @ + (dx * s.speed * PosUnits)
                                         \div (DispUnits * SpeedUnits),
                     !.air_y_val = @ + (dy * s.speed * PosUnits)
                                         \div (DispUnits * SpeedUnits)])

\* the remainder of a language whose % truncates toward zero
TruncRem(a, m) == IF a >= 0 THEN a % m ELSE -((-a) % m)

rotate_obs_truncating(s, delta) ==
    update_vor_output(
        [s EXCEPT !.obs_angle = TruncRem(@ + delta * DegUnits, FullCircle)])

rotate_obs_stale(s, delta) ==
    [s EXCEPT !.obs_angle = (@ + delta * DegUnits) % FullCircle]

rotate_obs(s, delta) ==
    update_vor_output(
        [s EXCEPT !.obs_angle = (@ + delta * DegUnits) % FullCircle])

reset_simulation_first_station(s) ==
    update_vor_output(
        [s EXCEPT !.air_x_val = InitAir * PosUnits,
                  !.air_y_val = InitAir * PosUnits,
                  !.airplane_angle = 0,
                  !.obs_angle = 0,
                  !.active_vor = 1,
                  !.speed = (ResetSpeed * SpeedUnits) \div 10])

reset_simulation(s) ==
    update_vor_output(
        [s EXCEPT !.air_x_val = InitAir * PosUnits,
                  !.air_y_val = InitAir * PosUnits,
                  !.airplane_angle = 0,
                  !.obs_angle = 0,
                  !.speed = (ResetSpeed * SpeedUnits) \div 10])

set_active_vor_clearing_obs(s, v) ==
    update_vor_output([s EXCEPT !.active_vor = v, !.obs_angle = 0])

set_active_vor_zero_based(s, v) ==
    update_vor_output([s EXCEPT !.active_vor = v - 1])

\* the radio button sets active_vor_var to v, then set_active_vor runs
\* (redraw_all ends in update_vor_output)
set_active_vor(s, v) == update_vor_output([s EXCEPT !.active_vor = v])

set_speed(s, val) == [s EXCEPT !.speed = val]

----------------------------------------------------------------------------
(* The landing form: LandingForm *)

\* times are in units of 100 ms
DebounceUnits == 3

PollDelay == 1

CheckDelay == 20

\* time.time() when the form is constructed
StartClock == 10

MaxElapsed == 22

\* what one poll reads: buttons held, whether pygame raises, and whether the
\* simulator file can be launched
FormPads ==
    {p \in [buttons : {{}, {0}, {1}, {2}, {3}, {0, 3}},
            error : BOOLEAN, launch_ok : BOOLEAN] :
        /\ p.launch_ok => 3 \in p.buttons
        /\ p.error => p.buttons = {}}

RestPad == [buttons |-> {}, error |-> FALSE, launch_ok |-> FALSE]

\* root.after(100, self.poll_joystick)
SchedulePoll(f) == [f EXCEPT !.poll_after = Append(@, PollDelay)]

\* root.destroy(): the window and its pending timers are gone
destroy(f) == [f EXCEPT !.open = FALSE, !.poll_after = <<>>,
                        !.check_after = <<>>]

launch_simulator(f, launch_ok) == IF launch_ok THEN destroy(f) ELSE f

Outcome(f, o) == [f EXCEPT !.outcome = o]

RECURSIVE poll_joystick(_, _)

show_about_us_restarting(f, pad) ==
    poll_joystick([f EXCEPT !.in_about_section = TRUE,
                            !.poll_joystick_active = TRUE], pad)

show_about_us(f, pad) ==
    LET f1 == [f EXCEPT !.in_about_section = TRUE]
    IN  IF ~f1.poll_joystick_active
        THEN poll_joystick([f1 EXCEPT !.poll_joystick_active = TRUE], pad)
        ELSE f1

show_main_menu(f, pad) ==
    LET f1 == [f EXCEPT !.poll_joystick_active = TRUE,
                        !.in_about_section = FALSE]
    IN  IF f1.joystick /\ ~f1.polling_started
        THEN poll_joystick([f1 EXCEPT !.polling_started = TRUE], pad)
        ELSE f1

poll_joystick_undebounced(f, pad) ==
    IF ~f.joystick \/ ~f.poll_joystick_active
    THEN Outcome(SchedulePoll(f), "inactive")
    ELSE IF pad.error THEN Outcome(SchedulePoll(f), "error")
    ELSE IF 3 \in pad.buttons
    THEN Outcome(launch_simulator(
                     [f EXCEPT !.last_button_press = f.now,
                               !.poll_joystick_active = FALSE],
                     pad.launch_ok), "start")
    ELSE IF 0 \in pad.buttons
    THEN Outcome(show_about_us([f EXCEPT !.last_button_press = f.now], pad),
                 "about")
    ELSE IF 2 \in pad.buttons
    THEN Outcome(destroy([f EXCEPT !.last_button_press = f.now]), "exit")
    ELSE IF 1 \in pad.buttons /\ f.in_about_section
    THEN Outcome(show_main_menu([f EXCEPT !.last_button_press = f.now,
                                          !.in_about_section = FALSE], pad),
                 "back")
    ELSE Outcome(SchedulePoll(f), "idle")

\* a pygame.error is taken to be raised by pygame.event.pump(), inside the try
poll_joystick(f, pad) ==
    IF ~f.joystick \/ ~f.poll_joystick_active
    THEN Outcome(SchedulePoll(f), "inactive")
    ELSE IF pad.error THEN Outcome(SchedulePoll(f), "error")
    ELSE IF f.now - f.last_button_press < DebounceUnits
    THEN Outcome(SchedulePoll(f), "debounced")
    ELSE IF 3 \in pad.buttons
    THEN Outcome(launch_simulator(
                     [f EXCEPT !.last_button_press = f.now,
                               !.poll_joystick_active = FALSE],
                     pad.launch_ok), "start")
    ELSE IF 0 \in pad.buttons
    THEN Outcome(show_about_us([f EXCEPT !.last_button_press = f.now], pad),
                 "about")
    ELSE IF 2 \in pad.buttons
    THEN Outcome(destroy([f EXCEPT !.last_button_press = f.now]), "exit")
    ELSE IF 1 \in pad.buttons /\ f.in_about_section
    THEN Outcome(show_main_menu([f EXCEPT !.last_button_press = f.now,
                                          !.in_about_section = FALSE], pad),
                 "back")
    ELSE Outcome(SchedulePoll(f), "idle")

check_joystick_connection(f, found, pad) ==
    IF found
    THEN LET f1 == [f EXCEPT !.joystick = TRUE,
                             !.poll_joystick_active = TRUE]
         IN  IF ~f1.polling_started
             THEN poll_joystick([f1 EXCEPT !.polling_started = TRUE], pad)
             ELSE f1
    ELSE [f EXCEPT !.check_after = Append(@, CheckDelay)]

\* LandingForm.__init__, no button held while it runs
LandingForm(found) ==
    show_main_menu(
        check_joystick_connection(
            [open |-> TRUE, joystick |-> FALSE,
             poll_joystick_active |-> FALSE, polling_started |-> FALSE,
             in_about_section |-> FALSE, last_button_press |-> 0,
             poll_after |-> <<>>, check_after |-> <<>>, now |-> StartClock,
             handler |-> "__init__", outcome |-> "none"],
            found, RestPad),
        RestPad)

\* the form after the simulator was launched from it
FormClosed == destroy(LandingForm(FALSE))

\* a sequence without its i-th element
RemoveAt(seq, i) == SubSeq(seq, 1, i - 1) \o SubSeq(seq, i + 1, Len(seq))

\* a handler starts: its name, no poll outcome yet
Handling(f, name) == [f EXCEPT !.handler = name, !.outcome = "none"]

FormStep(f2) == form' = f2 /\ UNCHANGED <<simVars, call, map>>

\* a pending poll_joystick timer fires
PollTimer ==
    /\ form.open
    /\ \E i \in 1..Len(form.poll_after) : \E pad \in FormPads :
           /\ form.poll_after[i] = 0
           /\ FormStep(poll_joystick(
                  Handling([form EXCEPT !.poll_after = RemoveAt(@, i)],
                           "poll_joystick"), pad))

\* a pending check_joystick_connection timer fires
CheckTimer ==
    /\ form.open
    /\ \E i \in 1..Len(form.check_after) : \E found \in BOOLEAN :
       \E pad \in FormPads :
           /\ form.check_after[i] = 0
           /\ FormStep(check_joystick_connection(
                  Handling([form EXCEPT !.check_after = RemoveAt(@, i)],
                           "check_joystick_connection"), found, pad))

\* the About Us button of the main menu
ClickAbout ==
    /\ form.open
    /\ ~form.in_about_section
    /\ \E pad \in FormPads :
           FormStep(show_about_us(Handling(form, "show_about_us"), pad))

\* the Back buttons of the About section
ClickBack ==
    /\ form.open
    /\ form.in_about_section
    /\ \E pad \in FormPads :
           FormStep(show_main_menu(Handling(form, "show_main_menu"), pad))

\* the Start button of the main menu
ClickStart ==
    /\ form.open
    /\ ~form.in_about_section
    /\ \E launch_ok \in BOOLEAN :
           FormStep(launch_simulator(Handling(form, "launch_simulator"),
                                     launch_ok))

\* the window's close button
CloseWindow ==
    /\ form.open
    /\ FormStep(destroy(Handling(form, "destroy")))

\* 100 ms pass
AdvanceClock ==
    /\ form.open
    /\ form.now < StartClock + MaxElapsed
    /\ FormStep([Handling(form, "clock") EXCEPT
                    !.now = @ + 1,
                    !.poll_after = [i \in 1..Len(@) |-> Max(0, @[i] - 1)],
                    !.check_after = [i \in 1..Len(@) |-> Max(0, @[i] - 1)]])

NextLanding ==
    \/ PollTimer
    \/ CheckTimer
    \/ ClickAbout
    \/ ClickBack
    \/ ClickStart
    \/ CloseWindow
    \/ AdvanceClock

----------------------------------------------------------------------------
(* The embedded-map loader: load_map_python312_compatible *)

MapIdle ==
    [success |-> FALSE, pending |-> {}, attempted |-> {}, failed |-> {},
     status |-> "closed"]

\* try_loading_method(method_num, ...); raises: the method's set-up raises
try_loading_method(m, method_num, raises) ==
    IF m.success THEN m
    ELSE IF raises
         THEN IF method_num < 3
              THEN [m EXCEPT !.status = "attempt",
                             !.pending = @ \cup {<<"try", method_num + 1>>}]
              ELSE [m EXCEPT !.status = "all methods failed"]
         ELSE IF method_num = 1
              THEN [m EXCEPT !.status = "attempt",
                             !.attempted = @ \cup {1},
                             !.pending = @ \cup {<<"delayed_load", 1>>},
                             !.success = TRUE]
         ELSE IF method_num = 2
              THEN [m EXCEPT !.status = "attempt",
                             !.attempted = @ \cup {2},
                             !.pending = @ \cup {<<"delayed_url_load", 2>>},
                             !.success = TRUE]
              ELSE [m EXCEPT !.status = "compatibility mode",
                             !.attempted = @ \cup {3},
                             !.success = TRUE]

\* delayed_load (method 1) and delayed_url_load (method 2)
delayed_load(m, method_num, raises) ==
    IF raises
    THEN [m EXCEPT !.failed = @ \cup {method_num},
                   !.pending = @ \cup {<<"try", method_num + 1>>}]
    ELSE [m EXCEPT !.status = "loaded"]

MapStep(m2) ==
    map' = m2 /\ UNCHANGED <<simVars, call, form>>

\* the embedded map window is opened
OpenMap ==
    /\ map.status = "closed"
    /\ \E raises \in BOOLEAN : MapStep(try_loading_method(map, 1, raises))

\* a pending after() callback of the loader fires
MapTimer ==
    \E t \in map.pending : \E raises \in BOOLEAN :
        LET m == [map EXCEPT !.pending = @ \ {t}]
        IN  MapStep(IF t[1] = "try"
                    THEN try_loading_method(m, t[2], raises)
                    ELSE delayed_load(m, t[2], raises))

----------------------------------------------------------------------------
(* Inputs *)

\* (dx, dy) in DispUnits: the arrow keys give -1, 0, 1 per axis; the joystick
\* gives 0.8 * axis, the mouse 0.02 per pixel
Displacements ==
    {<<kx * DispUnits, ky * DispUnits>> : kx \in {-1, 0, 1}, ky \in {-1, 0, 1}}
    \cup {<<8, 0>>, <<-4, 8>>, <<4, -4>>, <<-8, -4>>}

\* OBS deltas in degrees: the keys and buttons give -5, -1, 1, 5
ObsDeltas == {-725, -5, -1, 1, 5, 370}

\* slider values: 0.1 .. 2.0 in steps of 0.1
SpeedValues == {1, 10, 20}

NoCall == [fn |-> "none", args |-> <<>>, result |-> 0]

InitSim ==
    LET s0 == update_vor_output(
                [air_x_val |-> InitAir * PosUnits,
                 air_y_val |-> InitAir * PosUnits,
                 airplane_angle |-> 0, obs_angle |-> 0,
                 speed |-> (InitSpeed * SpeedUnits) \div 10,
                 active_vor |-> 1,
                 vor |-> [vor1_x |-> vor1_x, vor1_y |-> vor1_y,
                          vor2_x |-> vor2_x, vor2_y |-> vor2_y],
                 display |-> [bearing |-> 0, direction |-> "TO",
                              deflection |-> 0]])
    IN  /\ air_x_val = s0.air_x_val
        /\ air_y_val = s0.air_y_val
        /\ airplane_angle = s0.airplane_angle
        /\ obs_angle = s0.obs_angle
        /\ speed = s0.speed
        /\ active_vor = s0.active_vor
        /\ vor = s0.vor
        /\ display = s0.display
        /\ step = 0
        /\ last_op = [name |-> "init", a |-> 0, b |-> 0]
        /\ pre = s0
        /\ pressed_keys = {}
        /\ last_button_states = {}
        /\ last_hat_state = <<0, 0>>
        /\ tick_log = <<>>

\* the simulator runs on its own: the landing form that launched it is
\* closed, no map window is open
InitOthers == form = FormClosed /\ map = MapIdle

Init == InitSim /\ InitOthers /\ joystick_enabled = FALSE /\ call = NoCall

\* one operation: the step bound, the history, the new simulator state
Do(name, a, b, s2) ==
    /\ step < MaxSteps
    /\ step' = step + 1
    /\ last_op' = [name |-> name, a |-> a, b |-> b]
    /\ pre' = SimState
    /\ SetSim(s2)
    /\ UNCHANGED <<call, inputVars, form, map>>

MoveAirplane ==
    \E d \in Displacements :
        Do("move_airplane", d[1], d[2], move_airplane(SimState, d[1], d[2]))

RotateObs ==
    \E delta \in ObsDeltas :
        Do("rotate_obs", delta, 0, rotate_obs(SimState, delta))

ResetSimulation == Do("reset_simulation", 0, 0, reset_simulation(SimState))

SetActiveVor ==
    \E v \in {1, 2} : Do("set_active_vor", v, 0, set_active_vor(SimState, v))

SetSpeed ==
    \E val \in SpeedValues : Do("set_speed", val, 0, set_speed(SimState, val))

Next ==
    \/ MoveAirplane
    \/ RotateObs
    \/ ResetSimulation
    \/ SetActiveVor
    \/ SetSpeed

Spec == Init /\ [][Next]_vars

\* set_active_vor with whatever value active_vor_var holds: the radio buttons
\* set 1 or 2, any other holder of the variable any integer
StationIndices == {0, 1, 2, 3, 99}

SelectStation ==
    \E v \in StationIndices :
        Do("set_active_vor", v, 0, set_active_vor(SimState, v))

NextStation == Next \/ SelectStation

SpecStation == Init /\ [][NextStation]_vars

----------------------------------------------------------------------------
(* The movement loop and the controller bindings *)

ArrowKeys == {"Left", "Right", "Up", "Down"}

\* axis readings are in AxisUnits per 1.0
AxisUnits == 10

\* the buttons of button_map, in the order poll iterates over them
MappedButtons == {0, 2, 3}

\* what the pad reads at one poll: buttons held, hat (x, y), axes 0 and 1
PadSamples ==
    {[buttons |-> {}, hat |-> <<0, 0>>, axes |-> <<0, 0>>],
     [buttons |-> {0}, hat |-> <<0, 0>>, axes |-> <<0, 0>>],
     [buttons |-> {2}, hat |-> <<-1, 0>>, axes |-> <<1, 0>>],
     [buttons |-> {3}, hat |-> <<1, 1>>, axes |-> <<0, -1>>],
     [buttons |-> {}, hat |-> <<0, 0>>, axes |-> <<10, 0>>],
     [buttons |-> {0, 2}, hat |-> <<0, 1>>, axes |-> <<-5, 10>>]}

\* a call made during a tick: the new simulator state, the call logged
Called(r, fn, by, cb, s2) ==
    [s |-> s2, log |-> Append(r.log, [fn |-> fn, by |-> by, cb |-> cb])]

joy_reset(r) ==
    Called(r, "reset_simulation", "poll", "joy_reset", reset_simulation(r.s))

joy_rotate_obs_left(r) ==
    Called(r, "rotate_obs", "poll", "joy_rotate_obs_left",
           rotate_obs(r.s, -5))

joy_rotate_obs_right(r) ==
    Called(r, "rotate_obs", "poll", "joy_rotate_obs_right",
           rotate_obs(r.s, 5))

\* axis * 0.8 in DispUnits
joy_scaled(axis) == (axis * 8 * DispUnits) \div (10 * AxisUnits)

joy_axes(r, axes) ==
    LET dx == IF Abs(axes[1]) * 100 > 15 * AxisUnits THEN axes[1] ELSE 0
        dy == IF Abs(axes[2]) * 100 > 15 * AxisUnits THEN axes[2] ELSE 0
    IN  IF dx # 0 \/ dy # 0
        THEN Called(r, "move_airplane", "poll", "joy_axes",
                    move_airplane(r.s, joy_scaled(dx), joy_scaled(dy)))
        ELSE r

joy_hat(r, hat) ==
    IF hat[1] = -1
    THEN Called(r, "rotate_obs", "poll", "joy_hat", rotate_obs(r.s, -1))
    ELSE IF hat[1] = 1
         THEN Called(r, "rotate_obs", "poll", "joy_hat", rotate_obs(r.s, 1))
         ELSE r

get_joystick_input(enabled, axes) ==
    IF ~enabled THEN <<0, 0>>
    ELSE <<IF Abs(axes[1]) * 100 < 15 * AxisUnits THEN 0 ELSE axes[1],
           IF Abs(axes[2]) * 100 < 15 * AxisUnits THEN 0 ELSE axes[2]>>

poll_level_triggered(r, joystick, prev_buttons, prev_hat, pad) ==
    IF ~joystick THEN r
    ELSE LET r0 == IF 0 \in pad.buttons THEN joy_reset(r) ELSE r
             r2 == IF 2 \in pad.buttons THEN joy_rotate_obs_left(r0) ELSE r0
             r3 == IF 3 \in pad.buttons THEN joy_rotate_obs_right(r2) ELSE r2
             rh == IF pad.hat # prev_hat THEN joy_hat(r3, pad.hat) ELSE r3
         IN  joy_axes(rh, pad.axes)

\* ControllerHandler.poll: buttons 0, 2, 3 on their rising edge, then the
\* hat if it changed, then the axes
poll(r, joystick, prev_buttons, prev_hat, pad) ==
    IF ~joystick THEN r
    ELSE LET r0 == IF 0 \in pad.buttons /\ 0 \notin prev_buttons
                   THEN joy_reset(r) ELSE r
             r2 == IF 2 \in pad.buttons /\ 2 \notin prev_buttons
                   THEN joy_rotate_obs_left(r0) ELSE r0
             r3 == IF 3 \in pad.buttons /\ 3 \notin prev_buttons
                   THEN joy_rotate_obs_right(r2) ELSE r2
             rh == IF pad.hat # prev_hat THEN joy_hat(r3, pad.hat) ELSE r3
         IN  joy_axes(rh, pad.axes)

keyboard_dx(keys) ==
    (IF "Right" \in keys THEN 1 ELSE 0) - (IF "Left" \in keys THEN 1 ELSE 0)

keyboard_dy(keys) ==
    (IF "Down" \in keys THEN 1 ELSE 0) - (IF "Up" \in keys THEN 1 ELSE 0)

\* one tick of movement_loop
movement_loop(s, keys, enabled, prev_buttons, prev_hat, pad) ==
    LET kdx == keyboard_dx(keys) * DispUnits
        kdy == keyboard_dy(keys) * DispUnits
        joy == IF enabled /\ kdx = 0 /\ kdy = 0
               THEN get_joystick_input(enabled, pad.axes)
               ELSE <<0, 0>>
        dx == kdx + joy_scaled(joy[1])
        dy == kdy + joy_scaled(joy[2])
        polled == poll([s |-> s, log |-> <<>>], enabled,
                       prev_buttons, prev_hat, pad)
    IN  IF dx # 0 \/ dy # 0
        THEN Called(polled, "move_airplane", "movement_loop", "none",
                    move_airplane(polled.s, dx, dy))
        ELSE polled

\* the construction tick runs before the controller exists, with no key held;
\* the pad is taken to be at rest then
InitTick ==
    InitSim /\ InitOthers /\ joystick_enabled \in BOOLEAN /\ call = NoCall

OnKeyPress ==
    \E k \in ArrowKeys :
        /\ step < MaxSteps
        /\ step' = step + 1
        /\ last_op' = [name |-> "on_key_press", a |-> 0, b |-> 0]
        /\ pre' = SimState
        /\ pressed_keys' = pressed_keys \cup {k}
        /\ SetSim(SimState)
        /\ UNCHANGED <<call, joystick_enabled, last_button_states,
                       last_hat_state, tick_log, form, map>>

OnKeyRelease ==
    \E k \in ArrowKeys :
        /\ step < MaxSteps
        /\ step' = step + 1
        /\ last_op' = [name |-> "on_key_release", a |-> 0, b |-> 0]
        /\ pre' = SimState
        /\ pressed_keys' = pressed_keys \ {k}
        /\ SetSim(SimState)
        /\ UNCHANGED <<call, joystick_enabled, last_button_states,
                       last_hat_state, tick_log, form, map>>

MovementLoop ==
    \E pad \in PadSamples :
        LET r == movement_loop(SimState, pressed_keys, joystick_enabled,
                               last_button_states, last_hat_state, pad)
        IN  /\ step < MaxSteps
            /\ step' = step + 1
            /\ last_op' = [name |-> "movement_loop",
                           a |-> keyboard_dx(pressed_keys),
                           b |-> keyboard_dy(pressed_keys)]
            /\ pre' = SimState
            /\ SetSim(r.s)
            /\ tick_log' = r.log
            /\ last_button_states' =
                   IF joystick_enabled THEN pad.buttons \cap MappedButtons
                   ELSE last_button_states
            /\ last_hat_state' =
                   IF joystick_enabled THEN pad.hat ELSE last_hat_state
            /\ UNCHANGED <<call, pressed_keys, joystick_enabled, form, map>>

NextTick ==
    \/ OnKeyPress
    \/ OnKeyRelease
    \/ MovementLoop
    \/ SetSpeed

SpecTick == InitTick /\ [][NextTick]_vars

\* the landing form, before any simulator is launched
InitLanding ==
    /\ InitSim
    /\ joystick_enabled = FALSE
    /\ call = NoCall
    /\ map = MapIdle
    /\ form \in {LandingForm(found) : found \in BOOLEAN}

SpecLanding == InitLanding /\ [][NextLanding]_vars

\* Tk runs every due timer and the clock goes on; nothing obliges the user
\* to click
SpecLandingLive ==
    /\ InitLanding
    /\ [][NextLanding]_vars
    /\ WF_vars(PollTimer)
    /\ WF_vars(CheckTimer)
    /\ WF_vars(AdvanceClock)

\* the simulator with its map window: keys and station changes go on while
\* the loader's callbacks run
NextMap ==
    \/ OnKeyPress
    \/ OnKeyRelease
    \/ SetActiveVor
    \/ OpenMap
    \/ MapTimer

SpecMap == Init /\ [][NextMap]_vars

----------------------------------------------------------------------------
(* The calculators applied to drawn inputs *)

ObsDegrees ==
    {15 * k : k \in 0..23} \cup {1, 7, 89, 91, 183, 271, 359}

ObsInputs == {d * DegUnits : d \in ObsDegrees}

BearingInputs == 0..(FullCircle - 1)

InitIndicator ==
    /\ InitSim
    /\ InitOthers
    /\ joystick_enabled = FALSE
    /\ call \in {[fn |-> "none", args |-> <<o, b>>, result |-> 0] :
                    o \in ObsInputs, b \in BearingInputs}

ApplyToFrom ==
    /\ call.fn = "none"
    /\ call' = [call EXCEPT
                  !.fn = "calculate_vor_to_from",
                  !.result = calculate_vor_to_from(call.args[1], call.args[2])]
    /\ UNCHANGED <<simVars, form, map>>

ApplyCdi ==
    /\ call.fn = "none"
    /\ call' = [call EXCEPT
                  !.fn = "calculate_cdi_deflection",
                  !.result =
                      calculate_cdi_deflection(call.args[1], call.args[2])]
    /\ UNCHANGED <<simVars, form, map>>

NextIndicator == ApplyToFrom \/ ApplyCdi

SpecIndicator == InitIndicator /\ [][NextIndicator]_vars

GeoFar == 40

AircraftCoords == 0..GeoSpan

StationCoords == (-GeoSpan..(2 * GeoSpan)) \cup {-GeoFar, GeoFar}

InitGeometry ==
    /\ InitSim
    /\ InitOthers
    /\ joystick_enabled = FALSE
    /\ call \in {[fn |-> "none", args |-> <<x1, y1, x2, y2>>, result |-> 0] :
                    x1 \in AircraftCoords, y1 \in AircraftCoords,
                    x2 \in StationCoords, y2 \in StationCoords}

ApplyBearing ==
    /\ call.fn = "none"
    /\ call' = [call EXCEPT
                  !.fn = "calculate_bearing",
                  !.result = calculate_bearing(call.args[1], call.args[2],
                                               call.args[3], call.args[4])]
    /\ UNCHANGED <<simVars, form, map>>

ApplyDistance ==
    /\ call.fn = "none"
    /\ call' = [call EXCEPT
                  !.fn = "calculate_distance",
                  !.result = calculate_distance(call.args[1], call.args[2],
                                                call.args[3], call.args[4])]
    /\ UNCHANGED <<simVars, form, map>>

NextGeometry == ApplyBearing \/ ApplyDistance

SpecGeometry == InitGeometry /\ [][NextGeometry]_vars

----------------------------------------------------------------------------
(* Properties *)

\* the angular distance between two angles, 0..180 degrees
AngDist(a, b) ==
    LET d == (a - b) % FullCircle IN Min(d, FullCircle - d)

CallObs == call.args[1]

CallBearing == call.args[2]

CallDiff == (CallBearing - CallObs) % FullCircle

CallReciprocal == (CallObs + 180 * DegUnits) % FullCircle

\* the deviation of the bearing from the nearer of the course and its
\* reciprocal
CallDeviation ==
    Min(AngDist(CallBearing, CallObs), AngDist(CallBearing, CallReciprocal))

\* C1: in every reachable state of the simulator (after any sequence of
\* rotate_obs, move_airplane, reset_simulation, station and speed changes)
\* obs_angle and airplane_angle lie in [0, 360).
C1_AnglesNormalized ==
    /\ obs_angle >= 0 /\ obs_angle < 360 * DegUnits
    /\ airplane_angle >= 0 /\ airplane_angle < 360 * DegUnits

\* a westward move (atan2 gives -90) after a negative OBS rotation
C1_Witness ==
    /\ last_op = [name |-> "move_airplane", a |-> -DispUnits, b |-> 0]
    /\ airplane_angle = 270 * DegUnits
    /\ obs_angle = 355 * DegUnits

\* C2: rotate_obs(delta) leaves obs = (obs + delta) normalized into [0, 360):
\* in range and congruent to obs + delta modulo 360; rotate_obs(delta + 360k)
\* from the same state gives the same obs for every k; rotate_obs(370) from
\* obs = 0 gives 10.
C2_RotateObsWraps ==
    last_op.name = "rotate_obs" =>
        /\ obs_angle >= 0 /\ obs_angle < 360 * DegUnits
        /\ (obs_angle - pre.obs_angle - last_op.a * DegUnits)
               % (360 * DegUnits) = 0
        /\ \A k \in (-MaxTurns)..MaxTurns :
               rotate_obs(pre, last_op.a + 360 * k).obs_angle = obs_angle
        /\ (pre.obs_angle = 0 /\ last_op.a = 370
               => obs_angle = 10 * DegUnits)

C2_Witness ==
    /\ last_op = [name |-> "rotate_obs", a |-> 370, b |-> 0]
    /\ pre.obs_angle = 0
    /\ obs_angle = 10 * DegUnits

\* C3: calculate_cdi_deflection returns a value in [-10, 10] dots.
C3_CdiClamped ==
    call.fn = "calculate_cdi_deflection" =>
        /\ call.result >= -10 * DotUnits
        /\ call.result <= 10 * DotUnits

\* the clamp acted: the folded deviation is beyond 20 degrees
C3_Witness ==
    /\ call.fn = "calculate_cdi_deflection"
    /\ cdi_folded_diff(CallObs, CallBearing) < -20 * DegUnits
    /\ call.result = -10 * DotUnits

\* C4: the needle is centred on the selected course and on its reciprocal:
\* calculate_cdi_deflection(obs, obs) = 0 and
\* calculate_cdi_deflection(obs, (obs + 180) mod 360) = 0.
C4_CdiCentred ==
    (/\ call.fn = "calculate_cdi_deflection"
     /\ CallBearing \in {CallObs, CallReciprocal})
        => call.result = 0

\* on the reciprocal, with obs + 180 wrapping past 360
C4_Witness ==
    /\ call.fn = "calculate_cdi_deflection"
    /\ CallObs = 270 * DegUnits
    /\ CallBearing = 90 * DegUnits
    /\ call.result = 0

\* C5: a deviation of at least 20 degrees from the nearer of the course and
\* its reciprocal gives exactly +10 or -10 dots; a smaller one gives the signed
\* deviation divided by 2, strictly inside (-10, 10).
C5_CdiTwoDegreesPerDot ==
    call.fn = "calculate_cdi_deflection" =>
        IF CallDeviation >= 20 * DegUnits
        THEN call.result \in {-10 * DotUnits, 10 * DotUnits}
        ELSE /\ call.result > -10 * DotUnits
             /\ call.result < 10 * DotUnits
             /\ \E dev \in (1 - 20 * DegUnits)..(20 * DegUnits - 1) :
                    /\ (CallBearing - CallObs - dev) % (180 * DegUnits) = 0
                    /\ call.result * 2 * DegUnits = dev * DotUnits

\* half a degree left of the reciprocal course: a quarter dot
C5_Witness ==
    /\ call.fn = "calculate_cdi_deflection"
    /\ AngDist(CallBearing, CallObs) > 90 * DegUnits
    /\ CallDeviation = 1
    /\ call.result * 2 * DegUnits = -DotUnits

\* C6: the diff of calculate_cdi_deflection after the reciprocal fold lies in
\* (-90, 90] degrees: never -90, never beyond 90.
C6_FoldedHalfOpen ==
    call.fn = "calculate_cdi_deflection" =>
        /\ cdi_folded_diff(CallObs, CallBearing) > -90 * DegUnits
        /\ cdi_folded_diff(CallObs, CallBearing) <= 90 * DegUnits

\* C7: calculate_vor_to_from(obs, obs) = "TO"; when the bearing is at least as
\* close to the course as to its reciprocal the result is "TO" for diff < 90 or
\* diff > 270 and "FROM" otherwise; diff of exactly 90 or 270 gives "FROM".
C7_ToFromMainRadial ==
    call.fn = "calculate_vor_to_from" =>
        /\ CallBearing = CallObs => call.result = "TO"
        /\ AngDist(CallBearing, CallObs) <= AngDist(CallBearing, CallReciprocal)
               => call.result = IF \/ CallDiff < 90 * DegUnits
                                   \/ CallDiff > 270 * DegUnits
                                THEN "TO" ELSE "FROM"
        /\ CallDiff \in {90 * DegUnits, 270 * DegUnits}
               => call.result = "FROM"

C7_Witness ==
    /\ call.fn = "calculate_vor_to_from"
    /\ CallDiff = 270 * DegUnits
    /\ call.result = "FROM"

\* C8 as stated: selecting the reciprocal course always flips TO/FROM:
\* calculate_vor_to_from((obs + 180) mod 360, bearing) is the opposite of
\* calculate_vor_to_from(obs, bearing) for all obs and bearing.
C8_AlwaysFlipped ==
    call.fn = "calculate_vor_to_from" =>
        calculate_vor_to_from(CallReciprocal, CallBearing) # call.result

\* C8 amended: selecting the reciprocal course flips TO/FROM unless the bearing
\* is exactly 90 or 270 degrees off the course, where both the course and its
\* reciprocal read "FROM".
C8_FlippedOffAbeam ==
    call.fn = "calculate_vor_to_from" =>
        IF CallDiff \in {90 * DegUnits, 270 * DegUnits}
        THEN /\ call.result = "FROM"
             /\ calculate_vor_to_from(CallReciprocal, CallBearing) = "FROM"
        ELSE calculate_vor_to_from(CallReciprocal, CallBearing) # call.result

C8_Witness ==
    /\ call.fn = "calculate_vor_to_from"
    /\ CallDiff \notin {90 * DegUnits, 270 * DegUnits}
    /\ call.result = "FROM"
    /\ calculate_vor_to_from(CallReciprocal, CallBearing) = "TO"

CallDx == call.args[3] - call.args[1]

CallDy == call.args[4] - call.args[2]

\* C9: calculate_bearing returns a value in [0, 360) measured clockwise from
\* the +y axis: a station purely in +y has bearing 0, purely in +x 90, purely
\* in -y 180, purely in -x 270, and a station at the aircraft has bearing 0.
C9_BearingClockwiseFromY ==
    call.fn = "calculate_bearing" =>
        /\ call.result >= 0 /\ call.result < 360 * DegUnits
        /\ (CallDx = 0 /\ CallDy > 0) => call.result = 0
        /\ (CallDx > 0 /\ CallDy = 0) => call.result = 90 * DegUnits
        /\ (CallDx = 0 /\ CallDy < 0) => call.result = 180 * DegUnits
        /\ (CallDx < 0 /\ CallDy = 0) => call.result = 270 * DegUnits
        /\ (CallDx = 0 /\ CallDy = 0) => call.result = 0

C9_Witness ==
    /\ call.fn = "calculate_bearing"
    /\ CallDx < 0 /\ CallDy = 0
    /\ call.result = 270 * DegUnits

\* C10 as stated: calculate_distance is non-negative and symmetric and is 0
\* exactly when the points coincide, also for points closer than 0.005.
C10_ZeroOnlyWhenCoincident ==
    call.fn = "calculate_distance" =>
        /\ call.result >= 0
        /\ call.result = calculate_distance(call.args[3], call.args[4],
                                            call.args[1], call.args[2])
        /\ call.result = 0 <=> (CallDx = 0 /\ CallDy = 0)

\* C10 amended: calculate_distance is non-negative and symmetric, is 0 for
\* coincident points and positive for points more than 0.005 apart; for
\* distinct points less than 0.005 apart the rounding to 2 decimals gives 0.
C10_ZeroBelowHalfCent ==
    call.fn = "calculate_distance" =>
        LET d2 == CallDx * CallDx + CallDy * CallDy
        IN  /\ call.result >= 0
            /\ call.result = calculate_distance(call.args[3], call.args[4],
                                                call.args[1], call.args[2])
            /\ d2 = 0 => call.result = 0
            /\ 40000 * d2 > PosUnits * PosUnits => call.result > 0
            /\ 40000 * d2 < PosUnits * PosUnits => call.result = 0

\* distinct points 0.004 apart: distance 0.0
C10_Witness ==
    /\ call.fn = "calculate_distance"
    /\ CallDx = 2 /\ CallDy = 0
    /\ call.result = 0

\* C11: move_airplane(0, 0) is a no-op: position, heading, OBS, active station
\* (and speed, stations, display) are unchanged, so the heading keeps the value
\* the last non-zero displacement set.
C11_ZeroMoveIsNoOp ==
    (last_op.name = "move_airplane" /\ last_op.a = 0 /\ last_op.b = 0) =>
        /\ air_x_val = pre.air_x_val
        /\ air_y_val = pre.air_y_val
        /\ airplane_angle = pre.airplane_angle
        /\ obs_angle = pre.obs_angle
        /\ active_vor = pre.active_vor
        /\ speed = pre.speed
        /\ vor = pre.vor
        /\ display = pre.display

\* a zero displacement after a westward move: the heading stays 270
C11_Witness ==
    /\ last_op = [name |-> "move_airplane", a |-> 0, b |-> 0]
    /\ airplane_angle = 270 * DegUnits
    /\ pre.airplane_angle = 270 * DegUnits

\* C12: for a non-zero (dx, dy) move_airplane sets the heading to
\* atan2(dx, -dy) in degrees normalized to [0, 360), whatever the previous
\* heading, adds dx * speed to x and dy * speed to y and leaves OBS and the
\* active station unchanged; (1, 0) gives 90, (0, -1) gives 0, (0, 1) gives
\* 180, (-1, 0) gives 270.
C12_MoveSetsHeadingAndPosition ==
    (last_op.name = "move_airplane" /\ (last_op.a # 0 \/ last_op.b # 0)) =>
        /\ airplane_angle = atan2_degrees(last_op.a, -last_op.b) % FullCircle
        /\ airplane_angle >= 0 /\ airplane_angle < 360 * DegUnits
        /\ (last_op.a > 0 /\ last_op.b = 0) => airplane_angle = 90 * DegUnits
        /\ (last_op.a = 0 /\ last_op.b < 0) => airplane_angle = 0
        /\ (last_op.a = 0 /\ last_op.b > 0) => airplane_angle = 180 * DegUnits
        /\ (last_op.a < 0 /\ last_op.b = 0) => airplane_angle = 270 * DegUnits
        /\ air_x_val * DispUnits * SpeedUnits
               = pre.air_x_val * DispUnits * SpeedUnits
                   + last_op.a * pre.speed * PosUnits
        /\ air_y_val * DispUnits * SpeedUnits
               = pre.air_y_val * DispUnits * SpeedUnits
                   + last_op.b * pre.speed * PosUnits
        /\ obs_angle = pre.obs_angle
        /\ active_vor = pre.active_vor

\* up (0, -1) after down (0, 1): heading 0 from heading 180
C12_Witness ==
    /\ last_op = [name |-> "move_airplane", a |-> 0, b |-> -DispUnits]
    /\ pre.airplane_angle = 180 * DegUnits
    /\ airplane_angle = 0
    /\ air_y_val < pre.air_y_val

\* C13: selecting a station with an index that names no station (99 with two
\* stations) is rejected and leaves the active station and all other
\* navigation state unchanged.
C13_OutOfRangeRejected ==
    (last_op.name = "set_active_vor" /\ last_op.a \notin {1, 2}) =>
        /\ active_vor = pre.active_vor
        /\ air_x_val = pre.air_x_val
        /\ air_y_val = pre.air_y_val
        /\ airplane_angle = pre.airplane_angle
        /\ obs_angle = pre.obs_angle
        /\ speed = pre.speed
        /\ vor = pre.vor
        /\ display = pre.display

\* C14: set_active_vor with a valid index changes only which station feeds
\* bearing, TO/FROM and CDI: position, heading, OBS, speed and both station
\* positions are unchanged.
C14_SwitchChangesOnlyStation ==
    (last_op.name = "set_active_vor" /\ last_op.a \in {1, 2}) =>
        /\ air_x_val = pre.air_x_val
        /\ air_y_val = pre.air_y_val
        /\ airplane_angle = pre.airplane_angle
        /\ obs_angle = pre.obs_angle
        /\ speed = pre.speed
        /\ vor = pre.vor
        /\ active_vor = last_op.a
        /\ display.bearing =
               IF last_op.a = 1
               THEN calculate_bearing(air_x_val, air_y_val,
                                      vor.vor1_x \div 5, vor.vor1_y \div 5)
               ELSE calculate_bearing(air_x_val, air_y_val,
                                      vor.vor2_x \div 5, vor.vor2_y \div 5)

\* station 2 selected after an OBS rotation: another bearing, the same OBS
C14_Witness ==
    /\ last_op = [name |-> "set_active_vor", a |-> 2, b |-> 0]
    /\ pre.active_vor = 1
    /\ obs_angle # 0
    /\ display.bearing # pre.display.bearing

\* C15: reset_simulation returns the aircraft to (10, 10), heading to 0 and OBS
\* to 0 and leaves the station positions and the active station untouched.
C15_ResetKeepsStations ==
    last_op.name = "reset_simulation" =>
        /\ air_x_val = 10 * PosUnits
        /\ air_y_val = 10 * PosUnits
        /\ airplane_angle = 0
        /\ obs_angle = 0
        /\ vor = pre.vor
        /\ active_vor = pre.active_vor

\* a reset with station 2 active and the aircraft moved away
C15_Witness ==
    /\ last_op.name = "reset_simulation"
    /\ pre.active_vor = 2
    /\ pre.air_x_val # 10 * PosUnits
    /\ active_vor = 2

\* C16: in every reachable state active_vor is 1 or 2 and the stations are
\* where they were created: (250, 250) and (1205, 442) in canvas units.
C16_OneStationActiveStationsFixed ==
    /\ active_vor \in {1, 2}
    /\ vor = [vor1_x |-> 250 * PosUnits, vor1_y |-> 250 * PosUnits,
              vor2_x |-> 1205 * PosUnits, vor2_y |-> 442 * PosUnits]

\* back on station 1 after station 2, the aircraft moved
C16_Witness ==
    /\ last_op = [name |-> "set_active_vor", a |-> 1, b |-> 0]
    /\ pre.active_vor = 2
    /\ air_x_val # 10 * PosUnits

\* the station update_vor_output reads for the active index
ActiveGridX == IF active_vor = 1 THEN vor.vor1_x \div 5 ELSE vor.vor2_x \div 5

ActiveGridY == IF active_vor = 1 THEN vor.vor1_y \div 5 ELSE vor.vor2_y \div 5

CurrentBearing ==
    calculate_bearing(air_x_val, air_y_val, ActiveGridX, ActiveGridY)

\* C19: the TO/FROM sense and CDI deflection on the instruments are those of
\* the current aircraft position, current OBS and currently active station.
C19_DisplayNeverStale ==
    /\ display.bearing = CurrentBearing
    /\ display.direction = calculate_vor_to_from(obs_angle, CurrentBearing)
    /\ display.deflection = calculate_cdi_deflection(obs_angle, CurrentBearing)

\* an OBS rotation that moved the needle
C19_Witness ==
    /\ last_op.name = "rotate_obs"
    /\ display.deflection # pre.display.deflection

\* C20: after reset_simulation position, heading, OBS and speed equal the
\* values the simulator was constructed with (10, 10, 0, 0, speed 0.7).
C20_ResetRestoresSpeed ==
    last_op.name = "reset_simulation" =>
        /\ air_x_val = 10 * PosUnits
        /\ air_y_val = 10 * PosUnits
        /\ airplane_angle = 0
        /\ obs_angle = 0
        /\ speed * 10 = 7 * SpeedUnits

\* C17: within a tick the displacement is applied before any controller
\* command (OBS rotation, reset): no call made by the controller poll
\* precedes the tick's own move_airplane.
C17_DisplacementBeforeController ==
    \A i \in 1..Len(tick_log) : \A j \in 1..Len(tick_log) :
        (/\ tick_log[i].by = "poll"
         /\ tick_log[i].fn \in {"rotate_obs", "reset_simulation"}
         /\ tick_log[j].by = "movement_loop") => j < i

\* C18: move_airplane is applied at most once in a tick, whatever the
\* keyboard, joystick and controller inputs are.
C18_OneMovePerTick ==
    Cardinality({i \in 1..Len(tick_log) :
                    tick_log[i].fn = "move_airplane"}) <= 1

\* the callback button_map binds to a button
ButtonCallback(b) ==
    IF b = 0 THEN "joy_reset"
    ELSE IF b = 2 THEN "joy_rotate_obs_left" ELSE "joy_rotate_obs_right"

\* how often a callback ran in a tick
CallbackRuns(log, cb) == Cardinality({i \in 1..Len(log) : log[i].cb = cb})

\* C21: at every poll the callback of a mapped button runs once if the button
\* is sampled pressed and was not sampled pressed at the previous poll (or was
\* never sampled), and not at all otherwise; a held button fires once; without
\* a joystick poll calls nothing.
C21_RisingEdgeOnly ==
    [][last_op'.name = "movement_loop" =>
         /\ \A b \in MappedButtons :
                CallbackRuns(tick_log', ButtonCallback(b)) =
                    IF /\ joystick_enabled
                       /\ b \in last_button_states'
                       /\ b \notin last_button_states
                    THEN 1 ELSE 0
         /\ ~joystick_enabled =>
                \A i \in 1..Len(tick_log') : tick_log'[i].by # "poll"]_vars

\* button A held across two polls: pressed at this poll, joy_reset not run
C21_Witness ==
    /\ last_op.name = "movement_loop"
    /\ joystick_enabled
    /\ 0 \in last_button_states
    /\ CallbackRuns(tick_log, "joy_reset") = 0

\* C22: in a tick in which the arrow keys give a non-zero displacement the
\* aircraft moves by exactly that displacement times speed, whatever the
\* joystick reads.
C22_KeyboardMoveOnly ==
    (last_op.name = "movement_loop" /\ (last_op.a # 0 \/ last_op.b # 0)) =>
        /\ air_x_val * SpeedUnits
               = pre.air_x_val * SpeedUnits + last_op.a * pre.speed * PosUnits
        /\ air_y_val * SpeedUnits
               = pre.air_y_val * SpeedUnits + last_op.b * pre.speed * PosUnits

\* C23: calculate_cdi_deflection(obs, bearing) equals
\* calculate_cdi_deflection((obs + 180) mod 360, bearing) for all obs and
\* bearing, also when the bearing is exactly 90 degrees off the course.
C23_CdiReciprocalSymmetric ==
    call.fn = "calculate_cdi_deflection" =>
        call.result = calculate_cdi_deflection(CallReciprocal, CallBearing)

\* the station the aircraft is displaced toward, grid coordinates
PreGridX ==
    IF pre.active_vor = 1 THEN pre.vor.vor1_x \div 5 ELSE pre.vor.vor2_x \div 5

PreGridY ==
    IF pre.active_vor = 1 THEN pre.vor.vor1_y \div 5 ELSE pre.vor.vor2_y \div 5

\* the last displacement is a positive multiple of station minus aircraft and
\* stops short of the station
MovedTowardStation ==
    /\ last_op.name = "move_airplane"
    /\ (last_op.a # 0 \/ last_op.b # 0)
    /\ last_op.a * (PreGridY - pre.air_y_val)
           = last_op.b * (PreGridX - pre.air_x_val)
    /\ last_op.a * (PreGridX - pre.air_x_val) >= 0
    /\ last_op.b * (PreGridY - pre.air_y_val) >= 0
    /\ Abs(air_x_val - pre.air_x_val) <= Abs(PreGridX - pre.air_x_val)
    /\ Abs(air_y_val - pre.air_y_val) <= Abs(PreGridY - pre.air_y_val)
    /\ <<air_x_val, air_y_val>> # <<PreGridX, PreGridY>>

\* C28: after a displacement straight toward the active station the heading
\* equals calculate_bearing from the pre-move position to the station.
C28_HeadingEqualsBearing ==
    MovedTowardStation =>
        airplane_angle = calculate_bearing(pre.air_x_val, pre.air_y_val,
                                           PreGridX, PreGridY)

\* C29: calculate_vor_to_from returns "TO" exactly when diff < 90 or
\* diff > 270, and "FROM" whenever the bearing is closer to the reciprocal.
C29_ToFromSingleRule ==
    call.fn = "calculate_vor_to_from" =>
        /\ call.result = "TO" <=> (\/ CallDiff < 90 * DegUnits
                                   \/ CallDiff > 270 * DegUnits)
        /\ call.result \in {"TO", "FROM"}
        /\ AngDist(CallBearing, CallObs) > AngDist(CallBearing, CallReciprocal)
               => call.result = "FROM"

\* a bearing closer to the reciprocal course
C29_Witness ==
    /\ call.fn = "calculate_vor_to_from"
    /\ AngDist(CallBearing, CallObs) > AngDist(CallBearing, CallReciprocal)
    /\ CallDiff > 180 * DegUnits
    /\ call.result = "FROM"

\* poll_joystick has just run from its timer and ended in one of: inactive,
\* debounced, no button, A pressed, B pressed, pygame error; the window is open
PolledAndOpen ==
    /\ form.open
    /\ form.handler = "poll_joystick"
    /\ form.outcome \in {"inactive", "debounced", "idle", "about", "back",
                         "error"}

\* C24: after every such invocation of poll_joystick another invocation is
\* eventually scheduled, unless the window is destroyed.
C24_PollingNeverStops ==
    PolledAndOpen ~> (Len(form.poll_after) > 0 \/ ~form.open)

\* C25: whenever the About section is shown the B button leads back to the
\* main menu: the joystick is being polled there (a B press is only seen by
\* poll_joystick), and the poll that takes the Back action leaves the main
\* menu shown with _in_about_section false.
C25_BackWorksInAbout ==
    /\ (form.open /\ form.joystick /\ form.in_about_section)
           => Len(form.poll_after) > 0
    /\ form.outcome = "back" => ~form.in_about_section

JoystickActions == {"start", "about", "exit", "back"}

\* C26: a poll inside the 300 ms window after a button-triggered action takes
\* no action and reschedules itself; two button-triggered actions are never
\* less than 0.3 s apart.
C26_Debounced ==
    /\ [](form.outcome = "debounced" =>
              /\ form.open
              /\ Len(form.poll_after) > 0
              /\ form.now - form.last_button_press < DebounceUnits)
    /\ [][form'.outcome \in JoystickActions =>
              /\ form.now - form.last_button_press >= DebounceUnits
              /\ form'.last_button_press = form.now]_vars
    /\ [][form'.last_button_press # form.last_button_press =>
              form'.last_button_press - form.last_button_press
                  >= DebounceUnits]_vars

\* a poll inside the window after an earlier joystick action
C26_Witness ==
    /\ form.outcome = "debounced"
    /\ form.last_button_press >= StartClock
    /\ form.now > form.last_button_press

\* C27: when a deferred load raised and the fallback callback it scheduled has
\* run, the next method has been attempted.
C27_FallsBackToNextMethod ==
    \A n \in {1, 2} :
        (n \in map.failed /\ <<"try", n + 1>> \notin map.pending)
            => (n + 1) \in map.attempted

\* C30: there is never more than one pending poll_joystick timer (nor more
\* than one pending check_joystick_connection timer).
C30_OnePollChain ==
    /\ Len(form.poll_after) <= 1
    /\ Len(form.check_after) <= 1

\* polling restarted from the About button after a failed launch stopped it
C30_Witness ==
    /\ form.handler = "show_about_us"
    /\ form.outcome # "none"
    /\ form.joystick
    /\ Len(form.poll_after) = 1

====
